---- MODULE Spec2Model ----
(***************************************************************************)
(* Model of convert.py, the image converter of the Kinetic POV project.    *)
(*                                                                         *)
(* The script runs three passes over the images named on the command line: *)
(* the load pass (classify, remap, pad, track numLEDs), the second pass    *)
(* (current estimate, scale factor, palette table, pixel table) and the    *)
(* last pass (the images[] table).                                         *)
(*                                                                         *)
(* Python floats are modelled as fixed-point numbers with FScale units per *)
(* 1.0; a float division rounds down to the next unit.  Currents are kept  *)
(* in tenths of a milliampere, so a current "as a float" is in units of    *)
(* 1 / (10 * FScale) mA.                                                   *)
(***************************************************************************)
EXTENDS Integers, Sequences, FiniteSets, TLC

\* ------------------------------------------------------------------------
\* Bounds of the checked inputs

\* Largest number of image files on the command line
MaxImages == 2
\* Largest height of the images whose pixel grids are enumerated
MaxHeight == 2

\* ------------------------------------------------------------------------
\* Tunables of the script (currents in tenths of a mA)

peakC == 1800
avgC == 600
bR == 1
bG == 1
bB == 1
mA0 == 13
mAR == 152 * bR
mAG == 87 * bG
mAB == 80 * bB

\* Units per 1.0 of a modelled float
FScale == 1000

\* pow(v / 255.0, gamma) for gamma = 2.7, v in 0..255, in units of 1/FScale
GammaTable ==
 <<   0,    0,    0,    0,    0,    0,    0,    0,    0,    0,    0,    0,    0,    0,    0,    0,
      1,    1,    1,    1,    1,    1,    1,    2,    2,    2,    2,    2,    3,    3,    3,    3,
      4,    4,    4,    5,    5,    5,    6,    6,    7,    7,    8,    8,    9,    9,   10,   10,
     11,   12,   12,   13,   14,   14,   15,   16,   17,   18,   18,   19,   20,   21,   22,   23,
     24,   25,   26,   27,   28,   29,   30,   32,   33,   34,   35,   37,   38,   39,   41,   42,
     44,   45,   47,   48,   50,   51,   53,   55,   57,   58,   60,   62,   64,   66,   68,   70,
     72,   74,   76,   78,   80,   82,   84,   86,   89,   91,   93,   96,   98,  101,  103,  106,
    108,  111,  114,  116,  119,  122,  125,  128,  131,  134,  137,  140,  143,  146,  149,  152,
    156,  159,  162,  166,  169,  172,  176,  180,  183,  187,  191,  194,  198,  202,  206,  210,
    214,  218,  222,  226,  230,  234,  239,  243,  247,  252,  256,  261,  265,  270,  275,  279,
    284,  289,  294,  299,  304,  309,  314,  319,  324,  329,  335,  340,  345,  351,  356,  362,
    367,  373,  379,  385,  390,  396,  402,  408,  414,  420,  427,  433,  439,  445,  452,  458,
    465,  471,  478,  485,  491,  498,  505,  512,  519,  526,  533,  540,  547,  555,  562,  569,
    577,  584,  592,  600,  607,  615,  623,  631,  639,  647,  655,  663,  671,  680,  688,  696,
    705,  713,  722,  730,  739,  748,  757,  766,  775,  784,  793,  802,  811,  821,  830,  839,
    849,  859,  868,  878,  888,  898,  908,  918,  928,  938,  948,  958,  969,  979,  989, 1000 >>

GammaPow(v) == GammaTable[v + 1]

\* a / b on floats
FDiv(a, b) == (a * FScale) \div b

\* ------------------------------------------------------------------------
\* Input images, as the image library decodes them.  A pixel is the tuple of
\* its bands: << palette index >> in mode P, << R, G, B >> in mode RGB.

\* The 216-colour 'web safe' palette: the declared palette of the paletted
\* inputs.  Index 0 is black, 180 is red, 215 is white.
WebSafe(i) == << 51 * (i \div 36), 51 * ((i \div 6) % 6), 51 * (i % 6) >>

Positions(w, h) == (0 .. (w - 1)) \X (0 .. (h - 1))

\* Palette indices the enumerated pixel grids draw from
GridIndices == {0, 180, 215}
\* Colours the enumerated truecolor grids draw from
GridColors == { <<0, 0, 0>>, <<255, 255, 255>> }

\* Widths of the enumerated pixel grids
GridWidths == {1, 2}

\* Every paletted and truecolor pixel grid of these widths up to MaxHeight
GridImages ==
  UNION { UNION { { [mode |-> "P", size |-> <<w, h>>, pixels |-> px]
                      : px \in [Positions(w, h) -> { << i >> : i \in GridIndices }] }
                  \cup
                  { [mode |-> "RGB", size |-> <<w, h>>, pixels |-> px]
                      : px \in [Positions(w, h) -> GridColors] }
                  : h \in 1 .. MaxHeight } : w \in GridWidths }

\* Larger images, their pixels given by a pattern
PatternSizes == { <<1, 3>>, <<2, 9>>, <<4, 6>> }
PatternKinds == { "cyc3", "ramp", "col0", "rgb" }

PatternPixel(kind, w, h, x, y) ==
  CASE kind = "cyc3" -> << << 0, 215, 180 >>[((x * h + y) % 3) + 1] >>
    [] kind = "ramp" -> << x * h + y >>
    [] kind = "col0" -> << IF x = 0 THEN 215 ELSE 0 >>
    [] kind = "rgb"  -> LET n == x * h + y
                        IN << 255 - 11 * n, (37 * n) % 256, (101 * n) % 256 >>

PatternImages ==
  { [mode |-> IF k = "rgb" THEN "RGB" ELSE "P",
     size |-> s,
     pixels |-> [p \in Positions(s[1], s[2]) |->
                   PatternPixel(k, s[1], s[2], p[1], p[2])]]
      : k \in PatternKinds, s \in PatternSizes }

\* The command lines checked: up to MaxImages pattern images, or one
\* enumerated grid
Runs ==
  UNION { [1 .. n -> PatternImages] : n \in 0 .. MaxImages }
  \cup { << g >> : g \in GridImages }

\* ------------------------------------------------------------------------
\* State

VARIABLES
  argv,            \* the decoded input files, in command-line order
  pc,              \* position of the script
  images,          \* images[] of the load pass
  numLEDs,
  imgNum,          \* loop variable of the second and the last pass
  lut,             \* packed colour list of the current image
  paletteCurrent,
  colMaxC, colAvgC,
  s1, bR1, bG1, bB1,
  cols, byteNum, numBytes,
  out              \* what has been written to standard output

vars == << argv, pc, images, numLEDs, imgNum, lut, paletteCurrent,
           colMaxC, colAvgC, s1, bR1, bG1, bB1, cols, byteNum, numBytes, out >>

scaleVars == << lut, paletteCurrent, colMaxC, colAvgC, s1, bR1, bG1, bB1 >>
byteVars == << cols, byteNum, numBytes >>

\* ------------------------------------------------------------------------
\* Load pass

Min(S) == CHOOSE m \in S : \A n \in S : m <= n

RECURSIVE SortedSeq(_)
SortedSeq(S) ==
  IF S = {} THEN << >>
  ELSE << Min(S) >> \o SortedSeq(S \ {Min(S)})

\* image.getcolors(256) of a paletted image: (count, index) for every index
\* in use, in index order
GetColors(img) ==
  LET used == { img.pixels[p][1] : p \in DOMAIN img.pixels }
      idx == SortedSeq(used)
  IN [c \in 1 .. Len(idx) |->
        << Cardinality({ p \in DOMAIN img.pixels : img.pixels[p][1] = idx[c] }),
           idx[c] >>]

\* remap = [0] * 256, then remap[image.colors[c][1]] = c for each colour used
Remap(colors) ==
  [i \in 0 .. 255 |->
     IF \E c \in 1 .. Len(colors) : colors[c][2] = i
     THEN (CHOOSE c \in 1 .. Len(colors) : colors[c][2] = i) - 1
     ELSE 0]

\* The try block: a paletted image gets its colour list and remapped pixels;
\* for an RGB image getcolors gives None or colour tuples, either raises
\* before a pixel is touched, and the image is called truecolor
Classify(img) ==
  IF img.mode = "P"
  THEN LET colors == GetColors(img)
           remap == Remap(colors)
       IN [numColors |-> Len(colors),
           colors |-> colors,
           pixels |-> [p \in DOMAIN img.pixels |-> << remap[img.pixels[p][1]] >>]]
  ELSE [numColors |-> 257, colors |-> << >>, pixels |-> img.pixels]

\* 1- and 4-bit images are padded to the next byte boundary
PadHeight(numColors, height) ==
  IF numColors <= 2
  THEN IF height % 8 # 0 THEN height + 8 - (height % 8) ELSE height
  ELSE IF numColors <= 16
       THEN IF height % 2 # 0 THEN height + 1 ELSE height
       ELSE height

\* numLEDs taken from the image just loaded, tallest or not
TallestOfLast(height, n) == height

\* if image.height > numLEDs: numLEDs = image.height
TallestOf(height, n) == IF height > n THEN height ELSE n

LoadImage ==
  /\ pc = "load"
  /\ Len(images) < Len(argv)
  /\ LET name == Len(images) + 1
         img == argv[name]
         cl == Classify(img)
         image == [name |-> name,
                   size |-> img.size,
                   height |-> PadHeight(cl.numColors, img.size[2]),
                   numColors |-> cl.numColors,
                   colors |-> cl.colors,
                   pixels |-> cl.pixels]
     IN /\ images' = Append(images, image)
        /\ numLEDs' = TallestOf(image.height, numLEDs)
  /\ UNCHANGED << argv, pc, imgNum, scaleVars, byteVars, out >>

\* ------------------------------------------------------------------------
\* print "#define NUM_LEDS %d" % numLEDs

AfterImage(n) == IF n < Len(images) THEN "estimate" ELSE "last"

PrintHeader ==
  /\ pc = "load"
  /\ Len(images) = Len(argv)
  /\ out' = [out EXCEPT !.numLeds = << numLEDs >>]
  /\ imgNum' = 0
  /\ pc' = AfterImage(0)
  /\ UNCHANGED << argv, images, numLEDs, scaleVars, byteVars >>

\* ------------------------------------------------------------------------
\* Second pass: current estimate and scale factor

\* The estimate without the idle current of the LED
PixelCurrentNoIdle(rgb) ==
  GammaPow(rgb[1]) * mAR + GammaPow(rgb[2]) * mAG + GammaPow(rgb[3]) * mAB

\* mA0 + pow(r/255.0, gamma) * mAR + pow(g/255.0, gamma) * mAG + ... * mAB
PixelCurrent(rgb) ==
  mA0 * FScale + GammaPow(rgb[1]) * mAR + GammaPow(rgb[2]) * mAG
               + GammaPow(rgb[3]) * mAB

\* The lut read in the order of the declared palette instead of image.colors
PackedLutDeclaredOrder(image) ==
  [x \in 1 .. image.numColors |-> WebSafe(x - 1)]

\* lut: one RGB entry per colour in use, in the order of image.colors
PackedLut(image) ==
  [x \in 1 .. image.numColors |-> WebSafe(image.colors[x][2])]

\* mA of column x: the sum over the rows of the image as loaded
RECURSIVE ColumnCurrent(_, _, _, _)
ColumnCurrent(image, palCur, x, y) ==
  IF y >= image.size[2] THEN 0
  ELSE (IF image.numColors <= 256
        THEN palCur[image.pixels[<< x, y >>][1] + 1]
        ELSE PixelCurrent(image.pixels[<< x, y >>]))
       + ColumnCurrent(image, palCur, x, y + 1)

\* if mA > colMaxC: colMaxC = mA
PeakOf(mA, m) == IF mA > m THEN mA ELSE m

\* The loop over the columns: << colMaxC, colAvgC before the division >>
RECURSIVE ColumnLoop(_, _, _, _)
ColumnLoop(image, palCur, x, acc) ==
  IF x >= image.size[1] THEN acc
  ELSE LET mA == ColumnCurrent(image, palCur, x, 0)
       IN ColumnLoop(image, palCur, x + 1,
                     << PeakOf(mA, acc[1]), acc[2] + mA >>)

\* The scale factor without the limit of 1.0
ScaleFactorUncapped(maxC, avgCur) ==
  LET p1 == FDiv(peakC * FScale, maxC)
      p2 == FDiv(avgC * FScale, avgCur)
  IN IF p2 < p1 THEN p2 ELSE p1

\* The scale factor from the average constraint alone
ScaleFactorAvgOnly(maxC, avgCur) ==
  LET p2 == FDiv(avgC * FScale, avgCur)
  IN IF p2 > FScale THEN FScale ELSE p2

\* s1 = peakC / colMaxC; s2 = avgC / colAvgC; the smaller of the two, but
\* never more than 1.0
ScaleFactor(maxC, avgCur) ==
  LET p1 == FDiv(peakC * FScale, maxC)
      p2 == FDiv(avgC * FScale, avgCur)
      m == IF p2 < p1 THEN p2 ELSE p1
  IN IF m > FScale THEN FScale ELSE m

EstimateCurrent ==
  /\ pc = "estimate"
  /\ LET image == images[imgNum + 1]
         newLut == IF image.numColors <= 256 THEN PackedLut(image) ELSE lut
         palCur == IF image.numColors <= 256
                   THEN [i \in 1 .. image.numColors |-> PixelCurrent(newLut[i])]
                   ELSE paletteCurrent
         loop == ColumnLoop(image, palCur, 0, << 0, 0 >>)
     IN /\ lut' = newLut
        /\ paletteCurrent' = palCur
        /\ colMaxC' = loop[1]
        /\ IF image.size[1] = 0 \/ loop[1] = 0 \/ loop[2] \div image.size[1] = 0
           THEN \* ZeroDivisionError
                /\ colAvgC' = loop[2]
                /\ pc' = "abort"
                /\ UNCHANGED << s1, bR1, bG1, bB1, cols, byteNum >>
           ELSE /\ colAvgC' = loop[2] \div image.size[1]
                /\ s1' = ScaleFactor(colMaxC', colAvgC') * 255
                /\ bR1' = bR * s1'
                /\ bG1' = bG * s1'
                /\ bB1' = bB * s1'
                /\ cols' = 7
                /\ byteNum' = 0
                /\ pc' = IF image.numColors <= 256 THEN "palette" ELSE "pixels"
  /\ UNCHANGED << argv, images, numLEDs, imgNum, numBytes, out >>

\* int(pow(v / 255.0, gamma) * b + 0.5), b a scaled balance value
Adjust(v, b) == (2 * GammaPow(v) * b + FScale * FScale) \div (2 * FScale * FScale)

\* Output gamma- and brightness-adjusted color palette
WritePalette ==
  /\ pc = "palette"
  /\ LET image == images[imgNum + 1]
         rows == [i \in 1 .. image.numColors |->
                    << Adjust(lut[i][1], bR1), Adjust(lut[i][2], bG1),
                       Adjust(lut[i][3], bB1) >>]
     IN out' = [out EXCEPT !.palette = Append(@, rows)]
  /\ pc' = "pixels"
  /\ UNCHANGED << argv, images, numLEDs, imgNum, scaleVars, byteVars >>

\* ------------------------------------------------------------------------
\* Second pass: pixel table

\* writeByte(n): the state of the three globals and the bytes written so far,
\* each with the line break before it and the comma and space after it
WriteByte(st, n) ==
  LET c1 == st.cols + 1
      wrap == c1 >= 8
      b == st.byteNum + 1
      c2 == IF wrap THEN 0 ELSE c1
  IN [cols |-> c2,
      byteNum |-> b,
      numBytes |-> st.numBytes,
      bytes |-> Append(st.bytes,
                       [n |-> n, newline |-> wrap, comma |-> b < st.numBytes,
                        space |-> b < st.numBytes /\ c2 < 7])]

\* writeByte for ns[lo], ..., ns[hi] in turn (the calls split in halves)
RECURSIVE WriteBytes(_, _, _, _)
WriteBytes(st, ns, lo, hi) ==
  IF lo > hi THEN st
  ELSE IF lo = hi THEN WriteByte(st, ns[lo])
  ELSE LET mid == (lo + hi) \div 2
           half == WriteBytes(st, ns, lo, mid)
       IN IF half.byteNum > st.byteNum
          THEN WriteBytes(half, ns, mid + 1, hi)
          ELSE half

\* numBytes of a paletted image
PalettedNumBytes(image, leds) ==
  IF image.numColors <= 2 THEN (image.size[1] * leds) \div 8
  ELSE IF image.numColors <= 16 THEN (image.size[1] * leds) \div 2
  ELSE IF image.numColors <= 256 THEN image.size[1] * leds
  ELSE image.size[1] * leds * 3

\* numBytes of a truecolor image
TruecolorNumBytes(image, leds) == image.size[1] * image.height * 3

\* range(0, n, step)
Range(n, step) == [k \in 1 .. ((n + step - 1) \div step) |-> (k - 1) * step]

\* The bits of a byte filled from the top
Pow2MsbFirst(bit) == << 128, 64, 32, 16, 8, 4, 2, 1 >>[bit + 1]

\* 1 << bit
Pow2(bit) == << 1, 2, 4, 8, 16, 32, 64, 128 >>[bit + 1]

\* sum of image.pixels[x, y + bit] << bit over the bits whose row exists
RECURSIVE PackBits(_, _, _, _)
PackBits(image, x, y, bit) ==
  IF bit >= 8 THEN 0
  ELSE (IF y + bit < image.size[2]
        THEN image.pixels[<< x, y + bit >>][1] * Pow2(bit)
        ELSE 0)
       + PackBits(image, x, y, bit + 1)

\* p1 * 16 + p2
PackNibbles(image, x, y) ==
  LET p1 == IF y < image.size[2] THEN image.pixels[<< x, y >>][1] ELSE 0
      p2 == IF y + 1 < image.size[2] THEN image.pixels[<< x, y + 1 >>][1]
            ELSE 0
  IN p1 * 16 + p2

RECURSIVE Flatten(_, _)
Flatten(seqs, k) ==
  IF k > Len(seqs) THEN << >> ELSE seqs[k] \o Flatten(seqs, k + 1)

\* The bytes of column x of a paletted image, in the order written
PalettedColumn(image, x, leds) ==
  IF image.numColors <= 2
  THEN LET ys == Range(leds, 8)
       IN [k \in 1 .. Len(ys) |-> PackBits(image, x, ys[k], 0)]
  ELSE IF image.numColors <= 16
  THEN LET ys == Range(leds, 2)
       IN [k \in 1 .. Len(ys) |-> PackNibbles(image, x, ys[k])]
  ELSE IF image.numColors <= 256
  THEN [k \in 1 .. leds |->
          IF k - 1 < image.size[2] THEN image.pixels[<< x, k - 1 >>][1] ELSE 0]
  ELSE Flatten([k \in 1 .. leds |->
                  IF k - 1 < image.size[2]
                  THEN image.pixels[<< x, k - 1 >>]
                  ELSE << 0, 0, 0 >>], 1)

\* The bytes of column x of a truecolor image: gamma- and brightness-adjusted
TruecolorColumn(image, x, leds, r1, g1, b1) ==
  Flatten([k \in 1 .. leds |->
             IF k - 1 < image.size[2]
             THEN << Adjust(image.pixels[<< x, k - 1 >>][1], r1),
                     Adjust(image.pixels[<< x, k - 1 >>][2], g1),
                     Adjust(image.pixels[<< x, k - 1 >>][3], b1) >>
             ELSE << 0, 0, 0 >>], 1)

WritePixels ==
  /\ pc = "pixels"
  /\ LET image == images[imgNum + 1]
         paletted == image.numColors <= 256
         nb == IF paletted THEN PalettedNumBytes(image, numLEDs)
                           ELSE TruecolorNumBytes(image, numLEDs)
         ns == Flatten([x1 \in 1 .. image.size[1] |->
                          IF paletted
                          THEN PalettedColumn(image, x1 - 1, numLEDs)
                          ELSE TruecolorColumn(image, x1 - 1, numLEDs,
                                               bR1, bG1, bB1)], 1)
         st == WriteBytes([cols |-> cols, byteNum |-> byteNum,
                           numBytes |-> nb, bytes |-> << >>], ns, 1, Len(ns))
     IN /\ numBytes' = nb
        /\ cols' = st.cols
        /\ byteNum' = st.byteNum
        /\ out' = [out EXCEPT
                     !.pixels = Append(@, st.bytes),
                     !.palette = IF paletted THEN @ ELSE Append(@, << >>)]
  /\ imgNum' = imgNum + 1
  /\ pc' = AfterImage(imgNum + 1)
  /\ UNCHANGED << argv, images, numLEDs, scaleVars >>

\* ------------------------------------------------------------------------
\* Last pass: the images[] table

TypeOf(image) ==
  IF image.numColors <= 2 THEN "PALETTE1"
  ELSE IF image.numColors <= 16 THEN "PALETTE4"
  ELSE IF image.numColors <= 256 THEN "PALETTE8"
  ELSE "TRUECOLOR"

\* The padded height written instead of the width
LinesOfHeight(image) == image.height

\* The value written into the entry's second field
LinesOf(image) == image.size[1]

\* One entry of images[]; a palette of -1 stands for NULL
TableEntry(n, image) ==
  [type |-> TypeOf(image),
   lines |-> LinesOf(image),
   palette |-> IF image.numColors <= 256 THEN n ELSE -1,
   pixels |-> n,
   comma |-> n < Len(images) - 1]

BeginTable ==
  /\ pc = "last"
  /\ imgNum' = 0
  /\ pc' = "table"
  /\ UNCHANGED << argv, images, numLEDs, scaleVars, byteVars, out >>

WriteTableEntry ==
  /\ pc = "table"
  /\ imgNum < Len(images)
  /\ out' = [out EXCEPT
               !.table = Append(@, TableEntry(imgNum, images[imgNum + 1]))]
  /\ imgNum' = imgNum + 1
  /\ UNCHANGED << argv, pc, images, numLEDs, scaleVars, byteVars >>

EndTable ==
  /\ pc = "table"
  /\ imgNum = Len(images)
  /\ pc' = "done"
  /\ UNCHANGED << argv, images, numLEDs, imgNum, scaleVars, byteVars, out >>

\* ------------------------------------------------------------------------

NoOutput ==
  [numLeds |-> << >>, palette |-> << >>, pixels |-> << >>, table |-> << >>]

Init ==
  /\ argv \in Runs
  /\ pc = "load"
  /\ images = << >>
  /\ numLEDs = 0
  /\ imgNum = 0
  /\ lut = << >>
  /\ paletteCurrent = << >>
  /\ colMaxC = 0
  /\ colAvgC = 0
  /\ s1 = 0
  /\ bR1 = 0
  /\ bG1 = 0
  /\ bB1 = 0
  /\ cols = 0
  /\ byteNum = 0
  /\ numBytes = 0
  /\ out = NoOutput

Next ==
  \/ LoadImage
  \/ PrintHeader
  \/ EstimateCurrent
  \/ WritePalette
  \/ WritePixels
  \/ BeginTable
  \/ WriteTableEntry
  \/ EndTable

Spec == Init /\ [][Next]_vars

\* ------------------------------------------------------------------------
\* What the properties below are stated in

\* The palette indices a paletted input image's pixels refer to
UsedIndices(img) == { img.pixels[p][1] : p \in DOMAIN img.pixels }

\* The colour an input pixel shows
OrigColor(img, p) ==
  IF img.mode = "P" THEN WebSafe(img.pixels[p][1]) ELSE img.pixels[p]

\* The colour count an input image is classified by: the distinct indices of
\* a paletted image, 257 for a truecolor one
ColorCount(img) ==
  IF img.mode = "P" THEN Cardinality(UsedIndices(img)) ELSE 257

RoundUp(h, m) == ((h + m - 1) \div m) * m

PaddedHeight(img) ==
  IF ColorCount(img) <= 2 THEN RoundUp(img.size[2], 8)
  ELSE IF ColorCount(img) <= 16 THEN RoundUp(img.size[2], 2)
  ELSE img.size[2]

MaxPaddedHeight ==
  IF Len(argv) = 0 THEN 0
  ELSE CHOOSE m \in { PaddedHeight(argv[i]) : i \in 1 .. Len(argv) } :
         \A i \in 1 .. Len(argv) : PaddedHeight(argv[i]) <= m

\* The image of the second pass's loop, once its scale factor is computed
Scaled == pc \in {"palette", "pixels"}
Current == imgNum + 1

\* ------------------------------------------------------------------------
\* C1: for a paletted image the emitted palette has one entry per distinct
\* colour index the pixels refer to, every remapped pixel index lies in
\* 0 .. numColors-1, and it selects (in the packed colour list and in the
\* emitted palette) the colour the pixel had before the remap.
C1_PackedPalette ==
  \A i \in 1 .. Len(images) :
    argv[i].mode = "P" =>
      /\ images[i].numColors = Cardinality(UsedIndices(argv[i]))
      /\ \A p \in DOMAIN argv[i].pixels :
           images[i].pixels[p][1] \in 0 .. (images[i].numColors - 1)
      /\ i <= Len(out.palette) =>
           Len(out.palette[i]) = Cardinality(UsedIndices(argv[i]))
      /\ (pc = "pixels" /\ Current = i) =>
           \A p \in DOMAIN argv[i].pixels :
             LET c == OrigColor(argv[i], p)
             IN /\ lut[images[i].pixels[p][1] + 1] = c
                /\ out.palette[i][images[i].pixels[p][1] + 1]
                     = << Adjust(c[1], bR1), Adjust(c[2], bG1), Adjust(c[3], bB1) >>

\* A palette was written for an image whose colours in use are not the first
\* entries of its declared palette
C1_Witness ==
  /\ pc = "pixels"
  /\ argv[Current].mode = "P"
  /\ UsedIndices(argv[Current]) = {180, 215}
  /\ Len(out.palette[Current]) = 2

\* ------------------------------------------------------------------------
\* C2 as stated: the scanline-count field of every entry of the images[]
\* table is the maximum padded height over all images (numLEDs).
C2_LinesIsNumLEDs ==
  \A k \in 1 .. Len(out.table) :
    out.table[k].lines = MaxPaddedHeight /\ out.table[k].lines = numLEDs

\* C2 amended: the field written is the image's own width, image.size[0].
C2_LinesIsWidth ==
  \A k \in 1 .. Len(out.table) : out.table[k].lines = argv[k].size[1]

\* An entry was written for an image whose width, own height and numLEDs all
\* differ
C2_Witness ==
  /\ Len(out.table) >= 1
  /\ argv[1].size[1] # numLEDs
  /\ argv[1].size[1] # argv[1].size[2]
  /\ out.table[1].lines # images[1].height

\* ------------------------------------------------------------------------
\* C3: when NUM_LEDS or any palette or pixel table has been written, every
\* image has been loaded and classified, numLEDs is the maximum padded height
\* over all images, and numLEDs does not change from then on.
Emitting == out.numLeds # << >> \/ out.palette # << >> \/ out.pixels # << >>

C3_NumLEDsFixed ==
  /\ [](Emitting =>
          /\ Len(images) = Len(argv)
          /\ \A i \in 1 .. Len(argv) :
               /\ images[i].numColors = ColorCount(argv[i])
               /\ images[i].height = PaddedHeight(argv[i])
          /\ numLEDs = MaxPaddedHeight
          /\ out.numLeds = << numLEDs >>)
  /\ [][Emitting => (Emitting' /\ numLEDs' = numLEDs)]_vars

\* A pixel table was written in a run whose last image is not the tallest
C3_Witness ==
  /\ out.pixels # << >>
  /\ Len(argv) >= 2
  /\ PaddedHeight(argv[Len(argv)]) < numLEDs
  /\ PaddedHeight(argv[1]) # argv[1].size[2]

\* ------------------------------------------------------------------------
\* C4: the bytes written for a column of a 1-bit image, unpacked LSB-first,
\* are the column's remapped pixels for the rows of the image and 0 for every
\* row from the original height on, whatever numLEDs is.
BitOf(byte, i) == (byte \div (2 ^ i)) % 2

C4_BitsRoundTrip ==
  \A i \in 1 .. Len(out.pixels) :
    ColorCount(argv[i]) <= 2 =>
      LET w == argv[i].size[1]
          h == argv[i].size[2]
          perCol == (numLEDs + 7) \div 8
      IN /\ Len(out.pixels[i]) = w * perCol
         /\ \A x \in 0 .. (w - 1) : \A y \in 0 .. (8 * perCol - 1) :
              BitOf(out.pixels[i][x * perCol + (y \div 8) + 1].n, y % 8)
                = IF y < h
                  THEN IF argv[i].pixels[<< x, y >>][1]
                            = Min(UsedIndices(argv[i])) THEN 0 ELSE 1
                  ELSE 0

\* A 1-bit image with both pixel values was packed under a numLEDs that is
\* no multiple of 8
C4_Witness ==
  \E i \in 1 .. Len(out.pixels) :
    /\ ColorCount(argv[i]) = 2
    /\ numLEDs % 8 # 0
    /\ \E k \in 1 .. Len(out.pixels[i]) : out.pixels[i][k].n \notin {0, 255}

\* ------------------------------------------------------------------------
\* What the pixel table of image i holds for row y of column x: a palette
\* index for a paletted image, three bytes for a truecolor one
EmittedAt(i, x, y) ==
  LET t == out.pixels[i]
      n == ColorCount(argv[i])
  IN IF n <= 2
     THEN BitOf(t[x * ((numLEDs + 7) \div 8) + (y \div 8) + 1].n, y % 8)
     ELSE IF n <= 16
     THEN LET b == t[x * ((numLEDs + 1) \div 2) + (y \div 2) + 1].n
          IN IF y % 2 = 0 THEN b \div 16 ELSE b % 16
     ELSE IF n <= 256
     THEN t[x * numLEDs + y + 1].n
     ELSE [j \in 1 .. 3 |-> t[(x * numLEDs + y) * 3 + j].n]

PaddingRows(i) == argv[i].size[2] .. (numLEDs - 1)

\* The rows from the original height to numLEDs are written as index 0
\* (0, 0, 0 for truecolor)
C5_PaddingIsIndexZero ==
  \A i \in 1 .. Len(out.pixels) :
    \A x \in 0 .. (argv[i].size[1] - 1) : \A y \in PaddingRows(i) :
      EmittedAt(i, x, y) = IF ColorCount(argv[i]) <= 256 THEN 0
                           ELSE << 0, 0, 0 >>

\* C5: every row from the original height to numLEDs is written as index 0,
\* and that value reads as black: entry 0 of the palette written for a
\* paletted image is (0, 0, 0).
C5_PaddingReadsBlack ==
  \A i \in 1 .. Len(out.pixels) :
    PaddingRows(i) # {} =>
      /\ \A x \in 0 .. (argv[i].size[1] - 1) : \A y \in PaddingRows(i) :
           EmittedAt(i, x, y) = IF ColorCount(argv[i]) <= 256 THEN 0
                                ELSE << 0, 0, 0 >>
      /\ ColorCount(argv[i]) <= 256 => out.palette[i][1] = << 0, 0, 0 >>

\* ------------------------------------------------------------------------
\* C6: every colour channel value written, in a palette entry or in a pixel
\* byte of a truecolor image, is an integer in 0 .. 255.
C6_ChannelsInRange ==
  /\ \A i \in 1 .. Len(out.palette) : \A k \in 1 .. Len(out.palette[i]) :
       \A j \in 1 .. 3 : out.palette[i][k][j] \in 0 .. 255
  /\ \A i \in 1 .. Len(out.pixels) :
       ColorCount(argv[i]) > 256 =>
         \A k \in 1 .. Len(out.pixels[i]) : out.pixels[i][k].n \in 0 .. 255

\* A truecolor table holding a full-scale channel and a palette holding one
\* have been written
C6_Witness ==
  \/ /\ Len(out.pixels) = 1
     /\ ColorCount(argv[1]) > 256
     /\ \E k \in 1 .. Len(out.pixels[1]) : out.pixels[1][k].n = 255
     /\ pc = "done"
  \/ /\ Len(out.palette) = 2
     /\ ColorCount(argv[1]) <= 256
     /\ \E k \in 1 .. Len(out.palette[1]) :
          out.palette[1][k][1] \in 1 .. 254
     /\ ColorCount(argv[2]) > 256
     /\ \E k \in 1 .. Len(out.pixels[2]) : out.pixels[2][k].n \in 1 .. 254
     /\ pc = "done"

\* ------------------------------------------------------------------------
\* The current estimate of column x of an input image, from its own colours
RECURSIVE SumTo(_, _)
SumTo(f, n) == IF n = 0 THEN 0 ELSE f[n - 1] + SumTo(f, n - 1)

ColEstimate(img, x) ==
  SumTo([y \in 0 .. (img.size[2] - 1) |->
           PixelCurrent(OrigColor(img, << x, y >>))], img.size[2])

ColEstimates(img) == [x \in 0 .. (img.size[1] - 1) |-> ColEstimate(img, x)]

Largest(f) == CHOOSE m \in { f[x] : x \in DOMAIN f } : \A x \in DOMAIN f : f[x] <= m

Mean(f, n) == SumTo(f, n) \div n

\* C7: the factor s1, before it is multiplied by 255, is
\* min(peakC / colMaxC, avgC / colAvgC, 1.0) and so never more than 1.0, with
\* colMaxC the largest and colAvgC the mean of the column estimates.
C7_ScaleFactorIsMin ==
  Scaled =>
    LET est == ColEstimates(argv[Current])
        mx == Largest(est)
        av == Mean(est, argv[Current].size[1])
    IN /\ colMaxC = mx
       /\ colAvgC = av
       /\ s1 = 255 * Min({ FDiv(peakC * FScale, mx),
                           FDiv(avgC * FScale, av), FScale })
       /\ s1 <= 255 * FScale

\* A scale factor below 1.0 that the peak constraint decided
C7_Witness ==
  /\ Scaled
  /\ FDiv(peakC * FScale, colMaxC) < FDiv(avgC * FScale, colAvgC)
  /\ s1 = 255 * FDiv(peakC * FScale, colMaxC)
  /\ s1 < 255 * FScale

\* ------------------------------------------------------------------------
AllBlack(img) ==
  \A p \in DOMAIN img.pixels : OrigColor(img, p) = << 0, 0, 0 >>

\* The script is past the scale factor of the current image, or died there
PastScale == pc \in {"palette", "pixels", "abort"}

\* C8 as stated: for an image that is fully off, colMaxC or colAvgC is zero
\* and the scale-factor computation ends the run with a division by zero.
C8_BlackImageAborts ==
  (PastScale /\ AllBlack(argv[Current])) =>
    (pc = "abort" /\ (colMaxC = 0 \/ colAvgC = 0))

\* C8 amended: for an image that is fully off, every column estimate is the
\* idle current mA0 times the height, so colMaxC and colAvgC are positive,
\* no division by zero occurs, and s1 is min(peakC / (mA0 * height),
\* avgC / (mA0 * height), 1.0).
C8_BlackImageScales ==
  (PastScale /\ AllBlack(argv[Current])) =>
    LET idle == mA0 * FScale * argv[Current].size[2]
    IN /\ pc # "abort"
       /\ colMaxC = idle
       /\ colAvgC = idle
       /\ idle > 0
       /\ s1 = 255 * Min({ FDiv(peakC * FScale, idle),
                           FDiv(avgC * FScale, idle), FScale })

\* The scale factor of a fully black image has been computed
C8_Witness ==
  /\ Scaled
  /\ AllBlack(argv[Current])
  /\ argv[Current].size[1] = 2
  /\ s1 > 0

\* ------------------------------------------------------------------------
\* The estimate of column x for the scaled output: the idle current of every
\* pixel plus its colour contribution times the factor s1 / 255
ScaledColEstimate(img, x) ==
  SumTo([y \in 0 .. (img.size[2] - 1) |->
           mA0 * FScale
           + ((s1 \div 255)
              * (PixelCurrent(OrigColor(img, << x, y >>)) - mA0 * FScale))
             \div FScale],
        img.size[2])

\* C9: with the scale factor chosen, no column of the scaled output exceeds
\* peakC and the mean over the columns does not exceed avgC.
C9_ConstraintsMet ==
  Scaled =>
    LET img == argv[Current]
        est == [x \in 0 .. (img.size[1] - 1) |-> ScaledColEstimate(img, x)]
    IN /\ \A x \in DOMAIN est : est[x] <= peakC * FScale
       /\ SumTo(est, img.size[1]) <= avgC * FScale * img.size[1]

\* ------------------------------------------------------------------------
\* C10: the bytes written to an image's pixel table are numBytes many, so
\* that the last byte of the table, and no other, is written without a comma.
C10_ByteCount ==
  /\ out.pixels # << >> => Len(out.pixels[Len(out.pixels)]) = numBytes
  /\ \A i \in 1 .. Len(out.pixels) : \A k \in 1 .. Len(out.pixels[i]) :
       out.pixels[i][k].comma <=> k < Len(out.pixels[i])
====
